---------------------------- MODULE Spec2Model ----------------------------
(***************************************************************************)
(* VoiceCloningDemo: the AudioPlayer component (a play/pause toggle over   *)
(* one HTMLAudioElement) and the read-only rendering of TTSSection and     *)
(* ModelSection, as written in src/src/App.tsx and src/unnamed/part_000.   *)
(*                                                                         *)
(* AudioPlayer is identical in the two files.  The two files differ in the *)
(* "Generated Speech" cell of TTSSection: part_000 guards the AudioPlayer  *)
(* by `row.generatedSpeech &&`, App.tsx renders it unconditionally.        *)
(***************************************************************************)
EXTENDS Naturals, Sequences, FiniteSets

\* Length of a clip in playback ticks: positions run 0..ClipLen, ClipLen = end.
ClipLen == 2
\* Longest train / test row sequence drawn as input of the renderer.
MaxRows == 2

\* The AudioPlayer instances on the page (one per clip reference).
Controls == {"a.wav", "b.wav"}

VARIABLES
    isPlaying,   \* [c]: the `isPlaying` of c's current render (icon, closure)
    queued,      \* [c]: a setIsPlaying(false) from onended awaits its re-render
    mounted,     \* [c]: the component instance is mounted
    paused,      \* [c]: audioRef.current.paused
    pos,         \* [c]: audioRef.current.currentTime, in ticks
    onended,     \* [c]: audioRef.current.onended is set (to the reset handler)
    lastReq,     \* [c]: last request the control issued: "none", "play", "pause"
    playFailed,  \* [c]: the promise of the last play() was rejected
    broken,      \* [c]: the clip reference does not resolve to playable audio
    build,       \* which file's TTSSection renders the page
    trainData,   \* ModelSection's trainData prop
    testData,    \* ModelSection's testData prop
    panel        \* the rendered ModelSection, or NotRendered

playerVars == <<isPlaying, queued, mounted, paused, pos, onended, lastReq,
                playFailed, broken>>
renderVars == <<build, trainData, testData, panel>>
vars == <<isPlaying, queued, mounted, paused, pos, onended, lastReq,
          playFailed, broken, build, trainData, testData, panel>>

NotRendered == [title |-> "", sections |-> <<>>]

-----------------------------------------------------------------------------
(* The media element, as far as the component drives it.                   *)

\* The element is producing sound: not paused, loadable, and not at the end.
Audible(c) == ~paused[c] /\ ~broken[c] /\ pos[c] < ClipLen

\* HTMLMediaElement.play(): the values of <<paused, pos>> it may leave.
\* A playable clip starts (from the start again if it had ended).  A clip
\* that cannot load never sounds; whether `paused` flips before the promise
\* rejects depends on whether the load had already failed.
AudioPlay(c) ==
    IF broken[c]
    THEN {<<p, pos[c]>> : p \in BOOLEAN}
    ELSE {<<FALSE, IF pos[c] = ClipLen THEN 0 ELSE pos[c]>>}

\* HTMLMediaElement.pause(): sets paused, leaves the position.
AudioPause(c) == {<<TRUE, pos[c]>>}

-----------------------------------------------------------------------------
(* AudioPlayer                                                             *)

PlayerInit ==
    /\ isPlaying = [c \in Controls |-> FALSE]
    /\ queued = [c \in Controls |-> FALSE]
    /\ mounted = [c \in Controls |-> TRUE]
    /\ paused = [c \in Controls |-> TRUE]
    /\ pos = [c \in Controls |-> 0]
    /\ onended = [c \in Controls |-> FALSE]
    /\ lastReq = [c \in Controls |-> "none"]
    /\ playFailed = [c \in Controls |-> FALSE]

\* The request handlePlayPause issues: pause() when the render it belongs to
\* has isPlaying, play() otherwise.
Request(c) == IF isPlaying[c] THEN "pause" ELSE "play"

\* Faulty variant: setIsPlaying(true) on every click.
NextIsPlayingStuck(c) == TRUE
\* The value handlePlayPause passes to setIsPlaying: !isPlaying.
NextIsPlaying(c) == ~isPlaying[c]

\* Faulty variant: a click silences every other control (exclusive playback).
TouchedExclusive(c) == Controls
\* The controls whose audio element and state a click on c writes: the
\* handler reaches only its own audioRef and its own setIsPlaying.
Touched(c) == {c}

\* Faulty variant: the handler is installed in the pause branch only.
InstallsOnEndedWhenPausing(c) == isPlaying[c]
\* Whether handlePlayPause installs the onended handler on this call: it
\* does on every call, after the play/pause request.
InstallsOnEnded(c) == TRUE

\* Faulty variant: currentTime is reset to 0 before play().
PlayRequestFromStart(c) == {<<r[1], 0>> : r \in AudioPlay(c)}
\* audioRef.current.play(): issued as is, no seek before it.
PlayRequest(c) == AudioPlay(c)

\* audioRef.current.pause()
PauseRequest(c) == AudioPause(c)

\* onClick={handlePlayPause}.  A click is a discrete event: React renders
\* the new state before the next event, and the value set here supersedes an
\* update still queued by onended.
handlePlayPause(c) ==
    /\ mounted[c]
    /\ \E r \in (IF Request(c) = "pause" THEN PauseRequest(c)
                                          ELSE PlayRequest(c)) :
          /\ paused' = [d \in Controls |->
                          IF d = c THEN r[1]
                          ELSE IF d \in Touched(c) THEN TRUE ELSE paused[d]]
          /\ pos' = [pos EXCEPT ![c] = r[2]]
    /\ lastReq' = [lastReq EXCEPT ![c] = Request(c)]
    /\ playFailed' = [playFailed EXCEPT
                        ![c] = IF Request(c) = "play" THEN FALSE ELSE @]
    /\ isPlaying' = [d \in Controls |->
                       IF d = c THEN NextIsPlaying(c)
                       ELSE IF d \in Touched(c) THEN FALSE ELSE isPlaying[d]]
    /\ queued' = [queued EXCEPT ![c] = FALSE]
    /\ onended' = [onended EXCEPT ![c] = InstallsOnEnded(c) \/ @]
    /\ UNCHANGED <<mounted, broken, renderVars>>

\* Whether the onended handler, when it runs for a mounted control, calls
\* setIsPlaying(false).
OnEndedResets(c) == TRUE

\* Faulty variant: the handler rewinds the clip (currentTime = 0).
OnEndedRewinds(c) == 0
\* The position the onended handler leaves: it writes nothing to the audio
\* element, so the position stays at the end.
OnEndedPosition(c) == ClipLen

\* Playback advances by one tick, short of the end.
Advance(c) ==
    /\ Audible(c)
    /\ pos[c] + 1 < ClipLen
    /\ pos' = [pos EXCEPT ![c] = @ + 1]
    /\ UNCHANGED <<isPlaying, queued, mounted, paused, onended, lastReq,
                   playFailed, broken, renderVars>>

\* Playback reaches the end and the element fires `ended`.  Browsers differ
\* on whether `paused` is set at the end.  The handler, if installed, calls
\* setIsPlaying(false); `ended` is not a discrete event, so the re-render is
\* scheduled and not immediate.  On an unmounted component the call is a no-op.
EndOfStream(c) ==
    /\ Audible(c)
    /\ pos[c] + 1 = ClipLen
    /\ pos' = [pos EXCEPT
                 ![c] = IF onended[c] THEN OnEndedPosition(c) ELSE ClipLen]
    /\ \E p \in BOOLEAN : paused' = [paused EXCEPT ![c] = p]
    /\ queued' = [queued EXCEPT
                    ![c] = @ \/ (onended[c] /\ mounted[c] /\ OnEndedResets(c))]
    /\ UNCHANGED <<isPlaying, mounted, onended, lastReq, playFailed, broken,
                   renderVars>>

\* React re-renders the component with the state queued by onended.
Render(c) ==
    /\ mounted[c]
    /\ queued[c]
    /\ isPlaying' = [isPlaying EXCEPT ![c] = FALSE]
    /\ queued' = [queued EXCEPT ![c] = FALSE]
    /\ UNCHANGED <<mounted, paused, pos, onended, lastReq, playFailed, broken,
                   renderVars>>

\* The promise returned by play() rejects (the clip cannot be loaded).  The
\* component attaches no handler to the promise and no onerror listener.
PlayFails(c) ==
    /\ broken[c]
    /\ lastReq[c] = "play"
    /\ ~playFailed[c]
    /\ playFailed' = [playFailed EXCEPT ![c] = TRUE]
    /\ UNCHANGED <<isPlaying, queued, mounted, paused, pos, onended, lastReq,
                   broken, renderVars>>

\* What unmounting does to the audio element: the component registers no
\* cleanup, so <<paused, onended>> are left as they are.
Teardown(c) == <<paused[c], onended[c]>>

\* The component is unmounted: its React state is gone.
Unmount(c) ==
    /\ mounted[c]
    /\ mounted' = [mounted EXCEPT ![c] = FALSE]
    /\ isPlaying' = [isPlaying EXCEPT ![c] = FALSE]
    /\ queued' = [queued EXCEPT ![c] = FALSE]
    /\ paused' = [paused EXCEPT ![c] = Teardown(c)[1]]
    /\ onended' = [onended EXCEPT ![c] = Teardown(c)[2]]
    /\ UNCHANGED <<pos, lastReq, playFailed, broken, renderVars>>

Init ==
    /\ PlayerInit
    /\ broken \in [Controls -> BOOLEAN]
    /\ build = "part_000"
    /\ trainData = <<>>
    /\ testData = <<>>
    /\ panel = NotRendered

Next ==
    \E c \in Controls :
        \/ handlePlayPause(c)
        \/ Advance(c)
        \/ EndOfStream(c)
        \/ Render(c)
        \/ PlayFails(c)
        \/ Unmount(c)

Spec == Init /\ [][Next]_vars

\* The media engine and React's scheduler keep running; the user need not.
Fairness ==
    \A c \in Controls :
        /\ WF_vars(Advance(c))
        /\ WF_vars(EndOfStream(c))
        /\ WF_vars(Render(c))
        /\ WF_vars(PlayFails(c))

FairSpec == Spec /\ Fairness

-----------------------------------------------------------------------------
(* TTSSection and ModelSection: the rendered tree as a value.              *)

\* Stand-in for a field that is not set at all (JavaScript `undefined`).
Undefined == "<undefined>"

\* JavaScript truthiness of a string-or-undefined value.
Truthy(s) == s # "" /\ s # Undefined

Builds == {"App.tsx", "part_000"}

\* The TTSData records drawn as input.
Rows ==
    [speakerId : {"s1", "s2"},
     originalText : {"hello"},
     originalSpeech : {"a.wav"},
     generatedSpeech : {"", Undefined, "b.wav"},
     generateText : {"new text"},
     generatedSpeechNew : {"c.wav"}]

RowSeqs == UNION {[1..n -> Rows] : n \in 0..MaxRows}

TextCell(t) == [kind |-> "text", text |-> t, src |-> "", label |-> ""]
EmptyCell == [kind |-> "empty", text |-> "", src |-> "", label |-> ""]
\* <AudioPlayer src={src} label={label} />
AudioPlayer(src, label) ==
    [kind |-> "AudioPlayer", text |-> "", src |-> src, label |-> label]

\* part_000: {row.generatedSpeech && (<AudioPlayer ... />)}
GeneratedSpeechCellGuarded(row) ==
    IF Truthy(row.generatedSpeech)
    THEN AudioPlayer(row.generatedSpeech, "Generated")
    ELSE EmptyCell

\* App.tsx: <AudioPlayer ... /> whatever the field holds.
GeneratedSpeechCellUnguarded(row) ==
    AudioPlayer(row.generatedSpeech, "Generated")

\* The "Generated Speech" cell of the file that renders the page.
GeneratedSpeechCell(row) ==
    IF build = "part_000"
    THEN GeneratedSpeechCellGuarded(row)
    ELSE GeneratedSpeechCellUnguarded(row)

\* One <TableRow>: its six cells.
TableRow(row) ==
    << TextCell(row.speakerId),
       TextCell(row.originalText),
       AudioPlayer(row.originalSpeech, "Original"),
       GeneratedSpeechCell(row),
       TextCell(row.generateText),
       AudioPlayer(row.generatedSpeechNew, "New Generated") >>

\* Faulty variant: the rows come out in reverse order.
MapRowsReversed(data) ==
    [i \in 1..Len(data) |-> TableRow(data[Len(data) + 1 - i])]
\* data.map((row, idx) => <TableRow key={idx}> ... )
MapRows(data) == [i \in 1..Len(data) |-> TableRow(data[i])]

\* ({data.length} samples)
SampleCount(data) == Len(data)

TTSSection(title, data) ==
    [title |-> title, count |-> SampleCount(data), rows |-> MapRows(data)]

\* Faulty variant: a section with no rows is left out.
ModelSectionSkipEmpty(title, train, test) ==
    [title |-> title,
     sections |->
        (IF train = <<>> THEN <<>>
         ELSE <<TTSSection("Train (seen data)", train)>>)
        \o (IF test = <<>> THEN <<>>
            ELSE <<TTSSection("Test (unseen data)", test)>>)]
\* <Card> with the title and the two <TTSSection>s, train then test.
ModelSection(title, train, test) ==
    [title |-> title,
     sections |-> << TTSSection("Train (seen data)", train),
                     TTSSection("Test (unseen data)", test) >>]

RenderInit ==
    /\ PlayerInit
    /\ broken = [c \in Controls |-> FALSE]
    /\ build \in Builds
    /\ trainData \in RowSeqs
    /\ testData \in RowSeqs
    /\ panel = NotRendered

\* <ModelSection title=... trainData=... testData=... /> is rendered.
RenderPanel ==
    /\ panel = NotRendered
    /\ panel' = ModelSection("E", trainData, testData)
    /\ UNCHANGED <<playerVars, build, trainData, testData>>

RenderNext == RenderPanel

RenderSpec == RenderInit /\ [][RenderNext]_vars

-----------------------------------------------------------------------------
(* Properties of AudioPlayer, checked under Spec / FairSpec.               *)

\* C1 (toggle symmetry): a click on a control whose render is Idle
\* (isPlaying = FALSE) makes it Playing and issues play() on its own audio
\* element, which then sounds if the clip is playable; a click on a control
\* whose render is Playing makes it Idle and issues pause(), leaving the
\* element paused.  Hence two clicks in a row from Idle end in Idle.
C1_ToggleSymmetry ==
    [][\A c \in Controls :
          handlePlayPause(c) =>
             /\ ~isPlaying[c] =>
                   /\ isPlaying'[c]
                   /\ lastReq'[c] = "play"
                   /\ ~broken[c] => Audible(c)'
             /\ isPlaying[c] =>
                   /\ ~isPlaying'[c]
                   /\ lastReq'[c] = "pause"
                   /\ paused'[c]]_vars

\* A control back in Idle after a play and a pause.
C1_Witness ==
    \E c \in Controls :
        mounted[c] /\ ~isPlaying[c] /\ lastReq[c] = "pause" /\ paused[c]

\* C2 (end-of-stream reset): whenever the clip of a mounted control in
\* Playing reaches its end, the `ended` handler queues setIsPlaying(false)
\* without issuing any request, and the control then becomes Idle with no
\* click needed; this holds for every play-through, the first included.
C2_EndOfStreamReset ==
    /\ [][\A c \in Controls :
             (EndOfStream(c) /\ mounted[c] /\ isPlaying[c]) =>
                (queued'[c] /\ lastReq'[c] = lastReq[c])]_vars
    /\ \A c \in Controls : queued[c] ~> ~isPlaying[c]

\* The clip has ended under a control still rendered as Playing.
C2_Witness ==
    \E c \in Controls :
        mounted[c] /\ isPlaying[c] /\ queued[c] /\ pos[c] = ClipLen

\* C3 (independence): a click on control a, the end of a's clip and the
\* re-render of a leave every field of every other control b unchanged.
C3_Independence ==
    [][\A a \in Controls :
          (handlePlayPause(a) \/ EndOfStream(a) \/ Render(a)) =>
             \A b \in Controls \ {a} :
                /\ isPlaying'[b] = isPlaying[b]
                /\ queued'[b] = queued[b]
                /\ paused'[b] = paused[b]
                /\ pos'[b] = pos[b]
                /\ onended'[b] = onended[b]
                /\ lastReq'[b] = lastReq[b]
                /\ mounted'[b] = mounted[b]]_vars

\* Control a was activated while b was mid-playback, and b still sounds.
C3_Witness ==
    \E a, b \in Controls :
        /\ a # b
        /\ isPlaying[b] /\ Audible(b) /\ pos[b] > 0
        /\ isPlaying[a] /\ Audible(a) /\ pos[a] = 0

\* C4 (failed playback reverts to Idle): once the play request of a control
\* has failed, the control is not left in Playing.
C4_FailedPlaybackReverts ==
    \A c \in Controls :
        (mounted[c] /\ lastReq[c] = "play" /\ playFailed[c]) => ~isPlaying[c]

\* C5 (release on unmount): an unmounted control's audio element is not
\* sounding and has no end-of-stream listener attached.
C5_ReleaseOnUnmount ==
    \A c \in Controls : ~mounted[c] => (~Audible(c) /\ ~onended[c])

\* C7 (visual state reflects playback): a mounted control with no re-render
\* pending shows Playing exactly when its audio element is sounding.
C7_VisualReflectsPlayback ==
    \A c \in Controls :
        (mounted[c] /\ ~queued[c]) => (isPlaying[c] <=> Audible(c))

\* C10 (position across pause/resume), as claimed: a click that pauses keeps
\* the position; the click after a pause resumes from that same position;
\* the first click after mount starts at zero; nothing moves the position of
\* an element that is not sounding except such a click.
C10_PositionAcrossPauseResume ==
    [][\A c \in Controls :
          /\ handlePlayPause(c) =>
                /\ isPlaying[c] => (paused'[c] /\ pos'[c] = pos[c])
                /\ (~isPlaying[c] /\ lastReq[c] = "pause") =>
                      (pos'[c] = pos[c] /\ (~broken[c] => ~paused'[c]))
                /\ lastReq[c] = "none" => (pos[c] = 0 /\ pos'[c] = 0)
          /\ (~handlePlayPause(c) /\ ~Audible(c)) => pos'[c] = pos[c]]_vars

\* C10 as amended: the click after a pause resumes from the retained
\* position unless that position is the end of the clip, in which case
\* play() starts over from zero.
C10_PositionAcrossPauseResumeAmended ==
    [][\A c \in Controls :
          /\ handlePlayPause(c) =>
                /\ isPlaying[c] => (paused'[c] /\ pos'[c] = pos[c])
                /\ (~isPlaying[c] /\ lastReq[c] = "pause") =>
                      /\ pos'[c] = (IF pos[c] = ClipLen THEN 0 ELSE pos[c])
                      /\ ~broken[c] => ~paused'[c]
                /\ lastReq[c] = "none" => (pos[c] = 0 /\ pos'[c] = 0)
          /\ (~handlePlayPause(c) /\ ~Audible(c)) => pos'[c] = pos[c]]_vars

\* One control paused by a click mid-clip, the other paused by a click that
\* arrived after its clip had ended but before the re-render.
C10_Witness ==
    \E c, d \in Controls :
        /\ c # d
        /\ mounted[c] /\ ~isPlaying[c] /\ lastReq[c] = "pause"
        /\ pos[c] > 0 /\ pos[c] < ClipLen
        /\ mounted[d] /\ ~isPlaying[d] /\ lastReq[d] = "pause"
        /\ pos[d] = ClipLen

\* C11 (end of stream has no side effect beyond the reset): the step in which
\* a clip ends issues no play or pause request for any control, installs or
\* removes no handler and leaves the position at the end of the clip; the
\* re-render that follows only sets the control Idle and leaves the audio
\* element (paused flag, position) and the last request as they were.
C11_EndOfStreamOnlyResets ==
    [][\A c \in Controls :
          /\ EndOfStream(c) =>
                /\ lastReq' = lastReq
                /\ onended' = onended
                /\ pos'[c] = ClipLen
                /\ ~Audible(c)'
          /\ Render(c) =>
                /\ ~isPlaying'[c]
                /\ lastReq' = lastReq
                /\ pos' = pos
                /\ paused' = paused]_vars

\* A control reset to Idle by the end of its clip: its last request is still
\* the play request and the position is at the end.
C11_Witness ==
    \E c \in Controls :
        /\ mounted[c] /\ ~isPlaying[c] /\ ~queued[c]
        /\ lastReq[c] = "play" /\ pos[c] = ClipLen

\* C12 (no race on a single control): whatever the interleaving of clicks
\* and end-of-stream notifications, a click handled before the pending
\* end-of-stream reset is rendered included, a mounted control with no
\* re-render pending is never Playing while its audio element is paused or
\* at its end, and never Idle while the element is sounding.
C12_NoRaceOnSingleControl ==
    \A c \in Controls :
        (mounted[c] /\ ~queued[c]) =>
            /\ isPlaying[c] => (~paused[c] /\ pos[c] < ClipLen)
            /\ ~isPlaying[c] => ~Audible(c)

\* A click was handled with the isPlaying captured before the pending
\* end-of-stream reset was rendered: the control is Idle, its last request is
\* a pause, and the clip is at its end.
C12_Witness ==
    \E c \in Controls :
        /\ mounted[c] /\ ~isPlaying[c] /\ ~queued[c]
        /\ lastReq[c] = "pause" /\ pos[c] = ClipLen /\ paused[c]

\* C13 (concurrent playback is permitted): a click on one control never
\* takes another control out of Playing nor silences its audio element, and
\* a click on an Idle control while another is Playing leaves both Playing;
\* so states with two controls Playing at once are reachable.
C13_ConcurrentPlaybackPermitted ==
    [][\A a, b \in Controls :
          (a # b /\ handlePlayPause(b) /\ isPlaying[a]) =>
             /\ isPlaying'[a]
             /\ Audible(a) => Audible(a)'
             /\ ~isPlaying[b] => isPlaying'[b]]_vars

\* Both controls Playing and both clips sounding at the same time.
C13_Witness ==
    \A c \in Controls : mounted[c] /\ isPlaying[c] /\ Audible(c)

\* C14 (listener attached whenever playing): no handler is installed before
\* the first click, yet whenever a control's audio element is sounding its
\* onended handler is installed, and whenever a mounted control is rendered
\* as Playing with its clip at the end, the reset is queued: no end-of-stream
\* notification is lost.
C14_ListenerAttachedWhenPlaying ==
    \A c \in Controls :
        /\ lastReq[c] = "none" => ~onended[c]
        /\ Audible(c) => onended[c]
        /\ (mounted[c] /\ isPlaying[c] /\ pos[c] = ClipLen) => queued[c]

\* A clip on its first play-through, sounding, with the handler installed.
C14_Witness ==
    \E c \in Controls :
        mounted[c] /\ Audible(c) /\ onended[c] /\ lastReq[c] = "play"

-----------------------------------------------------------------------------
(* Properties of the rendering, checked under RenderSpec.                  *)

\* The rendered sections, each with the row sequence it was rendered from.
Rendered ==
    IF Len(panel.sections) = 2
    THEN { <<panel.sections[1], trainData>>, <<panel.sections[2], testData>> }
    ELSE {}

\* C6 (optional-clip omission): in every rendered row, the Generated Speech
\* cell is empty when the row's generatedSpeech is unset and is one
\* AudioPlayer bound to it when set; no AudioPlayer has an unset src.
C6_OptionalClipOmission ==
    panel # NotRendered =>
        \A sd \in Rendered :
            \A i \in 1..Len(sd[2]) :
                /\ ~Truthy(sd[2][i].generatedSpeech) =>
                       sd[1].rows[i][4].kind = "empty"
                /\ Truthy(sd[2][i].generatedSpeech) =>
                       sd[1].rows[i][4] =
                           AudioPlayer(sd[2][i].generatedSpeech, "Generated")
                /\ \A k \in 1..Len(sd[1].rows[i]) :
                       sd[1].rows[i][k].kind = "AudioPlayer" =>
                           Truthy(sd[1].rows[i][k].src)

\* C8 (row count fidelity): each rendered section shows the count N of its
\* N input rows and holds exactly N rows, the i-th built from the i-th input.
C8_RowCountFidelity ==
    panel # NotRendered =>
        /\ Rendered # {}
        /\ \A sd \in Rendered :
              /\ sd[1].count = Len(sd[2])
              /\ Len(sd[1].rows) = Len(sd[2])
              /\ \A i \in 1..Len(sd[2]) :
                    /\ sd[1].rows[i][1].text = sd[2][i].speakerId
                    /\ sd[1].rows[i][2].text = sd[2][i].originalText
                    /\ sd[1].rows[i][3].src = sd[2][i].originalSpeech
                    /\ sd[1].rows[i][5].text = sd[2][i].generateText
                    /\ sd[1].rows[i][6].src = sd[2][i].generatedSpeechNew

\* A section rendered from two different rows.
C8_Witness ==
    /\ panel # NotRendered
    /\ Len(trainData) = 2
    /\ trainData[1].speakerId # trainData[2].speakerId
    /\ panel.sections[1].count = 2

\* C9 (panel completeness): a rendered panel holds exactly two sections, the
\* train one first and the test one second, each with the count and rows of
\* its sequence, also when a sequence is empty (count 0, no rows).
C9_PanelCompleteness ==
    panel # NotRendered =>
        /\ Len(panel.sections) = 2
        /\ panel.sections[1].title = "Train (seen data)"
        /\ panel.sections[2].title = "Test (unseen data)"
        /\ panel.sections[1].count = Len(trainData)
        /\ panel.sections[2].count = Len(testData)
        /\ Len(panel.sections[1].rows) = Len(trainData)
        /\ Len(panel.sections[2].rows) = Len(testData)

\* A panel rendered with an empty test sequence.
C9_Witness ==
    /\ panel # NotRendered
    /\ trainData # <<>>
    /\ testData = <<>>
    /\ Len(panel.sections) = 2
    /\ panel.sections[2].count = 0

=============================================================================
